---- MODULE Spec2Model ----
(***************************************************************************)
(* A model of renpy/curry.py: the Curry and Partial deferred-call classes  *)
(* (construction, invocation, structural equality, lazily cached hash),    *)
(* the curry and partial factories, and atl_partial_signature, which       *)
(* rewrites the signature of an ATL transform after some of its            *)
(* parameters have been passed.                                            *)
(***************************************************************************)
EXTENDS Integers, Sequences, FiniteSets, TLC

VARIABLES
    signature,               \* atl_partial_signature: the `signature` argument
    passed_parameters,       \* the `passed_parameters` argument (name -> value)
    allow_posonly_override,  \* "None", "True" or "False"
    force_convert_posonly,   \* BOOLEAN
    new_signature,           \* the signature returned by the first call
    again_signature,         \* the signature returned for new_signature
    stage,                   \* "start", "once", "twice"
    heap,                    \* the Curry / Partial instances the client holds
    last,                    \* the operation last performed, with its arguments
    ret,                     \* what that operation returned or raised
    calls,                   \* the calls of wrapped functions it made, in order
    threads                  \* each thread's position inside __hash__

sigvars == <<signature, passed_parameters, allow_posonly_override,
             force_convert_posonly, new_signature, again_signature, stage>>

callvars == <<heap, last, ret, calls>>

vars == <<sigvars, callvars, threads>>

None == "None"

----------------------------------------------------------------------------
(* Bounds of the model.                                                    *)

MaxParams == 3      \* longest input signature
MaxArgs == 1        \* most positional arguments bound or passed at once
MaxKw == 1          \* most keyword arguments bound or passed at once
HashBits == 4       \* width of the modelled hash values
NumThreads == 2     \* threads hashing one shared instance

----------------------------------------------------------------------------
(* Parameters and signatures (inspect.Parameter / renpy Signature).        *)

\* param.kind is an IntEnum; its integer value is the sort key of line 198.
POSITIONAL_ONLY == 0
POSITIONAL_OR_KEYWORD == 1
VAR_POSITIONAL == 2
KEYWORD_ONLY == 3
VAR_KEYWORD == 4

Kinds == {POSITIONAL_ONLY, POSITIONAL_OR_KEYWORD, VAR_POSITIONAL,
          KEYWORD_ONLY, VAR_KEYWORD}

\* param.empty, the "no default" marker
empty == "<empty>"

\* default values a parameter of an input signature may carry
DefaultValues == {"d0"}

\* the name of the i-th parameter of an input signature
ParamNames == <<"a", "b", "c", "d", "e">>

\* a name no input signature declares
UnknownNames == {"z"}

Parameter(name, kind, default) ==
    [name |-> name, kind |-> kind, default |-> default]

\* param.replace(default=..., kind=...)
replace(param, kind, default) == Parameter(param.name, kind, default)

IsPositional(param) == param.kind \in {POSITIONAL_ONLY, POSITIONAL_OR_KEYWORD}

IsVar(param) == param.kind \in {VAR_POSITIONAL, VAR_KEYWORD}

\* The well-formedness rules of a signature: kinds in rank order, at most
\* one parameter of each var kind and none of them with a default, and no
\* positional parameter without a default after one with a default.
KindOrdered(ps) ==
    \A i, j \in 1..Len(ps) : i < j => ps[i].kind <= ps[j].kind

DefaultOrdered(ps) ==
    \A i, j \in 1..Len(ps) :
        (i < j /\ IsPositional(ps[i]) /\ IsPositional(ps[j])
               /\ ps[i].default # empty) => ps[j].default # empty

WellFormed(ps) ==
    /\ KindOrdered(ps)
    /\ DefaultOrdered(ps)
    /\ \A i, j \in 1..Len(ps) : i # j => ps[i].name # ps[j].name
    /\ \A i, j \in 1..Len(ps) : (i # j /\ IsVar(ps[i])) => ps[i].kind # ps[j].kind
    /\ \A i \in 1..Len(ps) : IsVar(ps[i]) => ps[i].default = empty

Signature(ps) == [parameters |-> ps]

InputSignatures ==
    { Signature([i \in 1..n |-> Parameter(ParamNames[i], ks[i], ds[i])]) :
        <<n, ks, ds>> \in
            { t \in UNION { {n} \X [1..n -> Kinds]
                                \X [1..n -> DefaultValues \cup {empty}] :
                            n \in 0..MaxParams } :
                WellFormed([i \in 1..t[1] |->
                              Parameter(ParamNames[i], t[2][i], t[3][i])]) } }

\* The value a previous call stage bound to each name. The rebinder only
\* copies these values, so one distinct value per name covers them.
PassedValue ==
    [n \in {ParamNames[i] : i \in 1..Len(ParamNames)} \cup UnknownNames |->
        "v_" \o n]

PassedMaps ==
    { [n \in ns |-> PassedValue[n]] :
        ns \in SUBSET ({ParamNames[i] : i \in 1..MaxParams} \cup UnknownNames) }

AllowValues == {None, "True", "False"}

----------------------------------------------------------------------------
(* Values, keyword dictionaries and hashes.                                *)

\* the wrapped functions
Callables == {"f", "g"}

\* the class Partial, used as a callable by curry (line 120)
PartialClass == "Partial"

\* argument values
Values == {1, 2}

\* keyword names: ordinary ones, and the names of formal parameters of this
\* module's own functions
Keywords == {"x", "y"}
CallKeywords == {"x", "self", "function"}

\* A dict is the sequence of its (key, value) items in insertion order.
Keys(d) == { d[i][1] : i \in 1..Len(d) }

Items(d) == { d[i] : i \in 1..Len(d) }

IsDict(d) == \A i, j \in 1..Len(d) : i # j => d[i][1] # d[j][1]

Tuples(n) == UNION { [1..m -> Values] : m \in 0..n }

Dicts(keys, n) ==
    { d \in UNION { [1..m -> keys \X Values] : m \in 0..n } : IsDict(d) }

\* d[k] = v
DictSet(d, k, v) ==
    IF k \in Keys(d)
    THEN [i \in 1..Len(d) |-> IF d[i][1] = k THEN <<k, v>> ELSE d[i]]
    ELSE Append(d, <<k, v>>)

\* merged_kwargs = dict(self.kwargs); merged_kwargs.update(kwargs)
RECURSIVE update(_, _)
update(d, new) ==
    IF new = <<>> THEN d
    ELSE update(DictSet(d, Head(new)[1], Head(new)[2]), Tail(new))

\* dict equality: the same items, whatever their order
DictEq(d, e) == Items(d) = Items(e)

Modulus == 2 ^ HashBits

\* a ^ b, bit by bit
RECURSIVE XorBits(_, _)
XorBits(a, b) ==
    IF a = 0 THEN b
    ELSE IF b = 0 THEN a
    ELSE ((a + b) % 2) + 2 * XorBits(a \div 2, b \div 2)

\* a ^ b on HashBits-wide integers, tabulated
XorTable == [a \in 0..(Modulus - 1) |-> [b \in 0..(Modulus - 1) |-> XorBits(a, b)]]

Xor(a, b) == XorTable[a][b]

\* hash() of a callable and of a keyword name; hash(v) = v for a value
HashAtom ==
    [f |-> 3, g |-> 5, Partial |-> 6, x |-> 8, y |-> 9, self |-> 10,
     function |-> 11]

\* hash() of a tuple, from its elements' hashes hs: a function of the hashes
\* and of their order
RECURSIVE HashTuple(_)
HashTuple(hs) ==
    IF hs = <<>> THEN 7 % Modulus
    ELSE (3 * HashTuple(SubSeq(hs, 1, Len(hs) - 1)) + hs[Len(hs)] + 1) % Modulus

\* hash(self.args), a tuple of values
HashArgs(args) == HashTuple([i \in 1..Len(args) |-> args[i] % Modulus])

\* hash(i) for an item i = (key, value) of a keyword dict
HashItem(item) == HashTuple(<<HashAtom[item[1]] % Modulus, item[2] % Modulus>>)

\* hash(self.callable)
HashCallable(fn) == HashAtom[fn] % Modulus

----------------------------------------------------------------------------
(* Curry and Partial instances.                                            *)

\* the cached hash before its first computation (hash = None)
Absent == <<>>

NoObject == [cls |-> "None"]

\* An instance: Curry's callable / args / kwargs, which functools.partial
\* calls func / args / keywords.
Object(cls, callable, args, kwargs) ==
    [cls |-> cls, callable |-> callable, args |-> args, kwargs |-> kwargs,
     hash |-> Absent]

Returned(value, made) == [status |-> "returned", value |-> value, calls |-> made]

Raised(exception) == [status |-> "raised", value |-> [exception |-> exception],
                      calls |-> <<>>]

\* the value a wrapped function returns: a function of what it was called with
ResultOf(fn, args, kwargs) == [fn |-> fn, args |-> args, kwargs |-> Items(kwargs)]

\* Curry.__init__(self, callable, *args, **kwargs): a keyword named like a
\* formal parameter cannot be bound
Curry__init__(callable, args, kwargs) ==
    IF Keys(kwargs) \cap {"self", "callable"} # {}
    THEN Raised("TypeError")
    ELSE Returned(Object("Curry", callable, args, kwargs), <<>>)

\* Partial(func, *args, **keywords), inherited from functools.partial
Partial__new__(func, args, keywords) == Object("Partial", func, args, keywords)

\* fn(*args, **kwargs), for fn a wrapped function or the class Partial
Apply(fn, args, kwargs) ==
    IF fn = PartialClass
    THEN IF args = <<>> THEN Raised("TypeError")
         ELSE Returned(Partial__new__(Head(args), Tail(args), kwargs), <<>>)
    ELSE Returned(ResultOf(fn, args, kwargs),
                  <<[fn |-> fn, args |-> args, kwargs |-> kwargs]>>)

\* Curry.__call__(self, *args, **kwargs)
Curry__call__(self, args, kwargs) ==
    IF "self" \in Keys(kwargs) THEN Raised("TypeError")
    ELSE LET merged_kwargs == update(self.kwargs, kwargs)
         IN  Apply(self.callable, self.args \o args, merged_kwargs)

\* Partial.__call__, inherited from functools.partial
Partial__call__(self, args, keywords) ==
    Apply(self.callable, self.args \o args, update(self.kwargs, keywords))

\* obj(*args, **kwargs)
Call(obj, args, kwargs) ==
    IF obj.cls = "Curry" THEN Curry__call__(obj, args, kwargs)
    ELSE Partial__call__(obj, args, kwargs)

\* curry(fn)
curry(fn) == Partial__new__(PartialClass, <<fn>>, <<>>)

\* partial(function, *args, **kwargs)
partial(function, args, kwargs) ==
    IF "function" \in Keys(kwargs) THEN Raised("TypeError")
    ELSE Returned(Partial__new__(function, args, kwargs), <<>>)

\* mutant: keyword dictionaries compared item by item in insertion order
eq___OrderSensitive(self, other) ==
    /\ other.cls = self.cls
    /\ self.callable = other.callable
    /\ self.args = other.args
    /\ self.kwargs = other.kwargs

\* Curry.__eq__ / Partial.__eq__
eq__(self, other) ==
    /\ other.cls = self.cls
    /\ self.callable = other.callable
    /\ self.args = other.args
    /\ DictEq(self.kwargs, other.kwargs)

\* the for loop of __hash__: h ^= hash(i) for each item, in dict order
RECURSIVE XorItems(_, _)
XorItems(h, items) ==
    IF items = <<>> THEN h
    ELSE XorItems(Xor(h, HashItem(Head(items))), Tail(items))

\* mutant: the keyword items hashed as one tuple
ComputeHash_ItemsAsTuple(self) ==
    Xor(Xor(HashCallable(self.callable), HashArgs(self.args)),
        HashTuple([i \in 1..Len(self.kwargs) |-> HashItem(self.kwargs[i])]))

\* lines 66-69 / 102-105: the value a call of __hash__ computes on its own
ComputeHash(self) ==
    XorItems(Xor(HashCallable(self.callable), HashArgs(self.args)), self.kwargs)

\* __hash__ called with no other thread inside it: the instance afterwards
hash__(self) ==
    IF self.hash = Absent THEN [self EXCEPT !.hash = <<ComputeHash(self)>>]
    ELSE self

----------------------------------------------------------------------------
(* The client's references and the record of the last operation.           *)

Threads == 1..NumThreads

NoHeap == [B |-> NoObject, p |-> NoObject, q |-> NoObject]

Op(op, fn, args, kwargs, before) ==
    [op |-> op, fn |-> fn, args |-> args, kwargs |-> kwargs, before |-> before]

NoOp == Op("none", "-", <<>>, <<>>, NoHeap)

NoRet == [status |-> "none", value |-> NoObject]

IdleThread == [pc |-> "idle", i |-> 0, h |-> 0, rv |-> Absent]

IdleSig ==
    /\ signature = None
    /\ passed_parameters = <<>>
    /\ allow_posonly_override = None
    /\ force_convert_posonly = FALSE
    /\ new_signature = None
    /\ again_signature = None
    /\ stage = "idle"

IdleCalls ==
    /\ heap = NoHeap
    /\ last = NoOp
    /\ ret = NoRet
    /\ calls = <<>>

IdleThreads == threads = [t \in Threads |-> IdleThread]

\* the client stores what a constructor returned in reference r
Store(r, outcome) ==
    /\ heap' = IF outcome.status = "returned"
               THEN [heap EXCEPT ![r] = outcome.value] ELSE heap
    /\ ret' = [status |-> outcome.status, value |-> outcome.value]
    /\ calls' = outcome.calls

----------------------------------------------------------------------------
(* Construction and invocation: p = Curry(fn, ...), p = partial(fn, ...),  *)
(* B = curry(fn), p = B(...), p(...). The client binds each reference      *)
(* once (instances do not interact) and then invokes p.                    *)

InitCall == IdleSig /\ IdleCalls /\ IdleThreads

NewCurry ==
    /\ heap.p = NoObject
    /\ \E fn \in Callables, args \in Tuples(MaxArgs),
          kwargs \in Dicts(CallKeywords, MaxKw) :
        /\ Store("p", Curry__init__(fn, args, kwargs))
        /\ last' = Op("Curry", fn, args, kwargs, heap)
    /\ UNCHANGED <<sigvars, threads>>

NewPartial ==
    /\ heap.p = NoObject
    /\ \E fn \in Callables, args \in Tuples(MaxArgs),
          kwargs \in Dicts(CallKeywords, MaxKw) :
        /\ Store("p", partial(fn, args, kwargs))
        /\ last' = Op("partial", fn, args, kwargs, heap)
    /\ UNCHANGED <<sigvars, threads>>

NewBuilder ==
    /\ heap.B = NoObject
    /\ \E fn \in Callables :
        /\ Store("B", Returned(curry(fn), <<>>))
        /\ last' = Op("curry", fn, <<>>, <<>>, heap)
    /\ UNCHANGED <<sigvars, threads>>

Build ==
    /\ heap.B # NoObject
    /\ heap.p = NoObject
    /\ \E args \in Tuples(MaxArgs), kwargs \in Dicts(CallKeywords, MaxKw) :
        /\ Store("p", Call(heap.B, args, kwargs))
        /\ last' = Op("build", heap.B.args[1], args, kwargs, heap)
    /\ UNCHANGED <<sigvars, threads>>

Invoke ==
    /\ heap.p # NoObject
    /\ last.op # "invoke"
    /\ \E args \in Tuples(MaxArgs), kwargs \in Dicts(CallKeywords, MaxKw) :
        LET outcome == Call(heap.p, args, kwargs)
        IN  /\ ret' = [status |-> outcome.status, value |-> outcome.value]
            /\ calls' = outcome.calls
            /\ last' = Op("invoke", heap.p.callable, args, kwargs, heap)
    /\ UNCHANGED <<heap, sigvars, threads>>

NextCall == NewCurry \/ NewPartial \/ NewBuilder \/ Build \/ Invoke

SpecCall == InitCall /\ [][NextCall]_vars

----------------------------------------------------------------------------
(* Equality and hashing of two instances p and q, one call at a time.      *)

Instances ==
    { Object(cls, fn, args, kwargs) :
        cls \in {"Curry", "Partial"}, fn \in Callables,
        args \in Tuples(MaxArgs), kwargs \in Dicts(Keywords, MaxKw + 1) }

InitEq ==
    /\ IdleSig /\ IdleThreads
    /\ \E a \in Instances, b \in Instances :
         heap = [NoHeap EXCEPT !.p = a, !.q = b]
    /\ last = NoOp
    /\ ret = NoRet
    /\ calls = <<>>

\* hash(p); hash(q) is what hash__ returns for the instance q
Hash ==
    /\ LET rv == hash__(heap.p)
       IN  /\ heap' = [heap EXCEPT !.p = rv]
           /\ ret' = [status |-> "returned", value |-> [hash |-> rv.hash[1]]]
    /\ last' = Op("hash", "p", <<>>, <<>>, NoHeap)
    /\ UNCHANGED <<calls, sigvars, threads>>

\* p == q
Equals ==
    /\ ret' = [status |-> "returned", value |-> [eq |-> eq__(heap.p, heap.q)]]
    /\ last' = Op("eq", "p", <<>>, <<>>, NoHeap)
    /\ UNCHANGED <<heap, calls, sigvars, threads>>

NextEq == Hash \/ Equals

SpecEq == InitEq /\ [][NextEq]_vars

----------------------------------------------------------------------------
(* __hash__ of one shared instance p, called by several threads, one       *)
(* attribute read or write at a time.                                      *)

InitHash ==
    /\ IdleSig /\ IdleThreads
    /\ \E a \in Instances : heap = [NoHeap EXCEPT !.p = a]
    /\ last = NoOp
    /\ ret = NoRet
    /\ calls = <<>>

Step(t, now, next) ==
    /\ threads[t].pc = now
    /\ threads' = [threads EXCEPT ![t] = next]
    /\ UNCHANGED <<last, ret, calls, sigvars>>

\* a thread calls hash(p)
EnterHash ==
    \E t \in Threads :
        /\ Step(t, "idle", [threads[t] EXCEPT
                              !.pc = IF heap.p.cls = "Curry" THEN "c65" ELSE "p99"])
        /\ UNCHANGED heap

\* Curry, line 65: if self.hash is None
CurryTest ==
    \E t \in Threads :
        /\ heap.p.cls = "Curry"
        /\ Step(t, "c65", [threads[t] EXCEPT
                             !.pc = IF heap.p.hash = Absent THEN "c66" ELSE "c71"])
        /\ UNCHANGED heap

\* Curry, line 66: self.hash = hash(self.callable) ^ hash(self.args)
CurryInit ==
    \E t \in Threads :
        /\ Step(t, "c66", [threads[t] EXCEPT
                             !.pc = IF heap.p.kwargs = <<>> THEN "c71" ELSE "c69",
                             !.i = 1])
        /\ heap' = [heap EXCEPT !.p.hash =
                      <<Xor(HashCallable(heap.p.callable), HashArgs(heap.p.args))>>]

\* Curry, line 69: self.hash ^= hash(i), the read of self.hash
CurryLoad ==
    \E t \in Threads :
        /\ Step(t, "c69", [threads[t] EXCEPT !.pc = "c69w", !.h = heap.p.hash[1]])
        /\ UNCHANGED heap

\* Curry, line 69: self.hash ^= hash(i), the write of self.hash
CurryStore ==
    \E t \in Threads :
        /\ Step(t, "c69w", [threads[t] EXCEPT
                              !.pc = IF threads[t].i = Len(heap.p.kwargs)
                                     THEN "c71" ELSE "c69",
                              !.i = threads[t].i + 1])
        /\ heap' = [heap EXCEPT !.p.hash =
                      <<Xor(threads[t].h, HashItem(heap.p.kwargs[threads[t].i]))>>]

\* Curry, line 71: return self.hash
CurryReturn ==
    \E t \in Threads :
        /\ Step(t, "c71", [threads[t] EXCEPT !.pc = "done", !.rv = heap.p.hash])
        /\ UNCHANGED heap

\* Partial, lines 99-101: _hash = getattr(self, 'hash', None); if _hash is None
PartialTest ==
    \E t \in Threads :
        /\ heap.p.cls = "Partial"
        /\ Step(t, "p99", IF heap.p.hash = Absent
                          THEN [threads[t] EXCEPT !.pc = "p102"]
                          ELSE [threads[t] EXCEPT !.pc = "p109", !.h = heap.p.hash[1]])
        /\ UNCHANGED heap

\* Partial, lines 102-105: _hash computed in the local variable
PartialCompute ==
    \E t \in Threads :
        /\ Step(t, "p102", [threads[t] EXCEPT !.pc = "p107", !.h = ComputeHash(heap.p)])
        /\ UNCHANGED heap

\* Partial, line 107: setattr(self, 'hash', _hash)
PartialStore ==
    \E t \in Threads :
        /\ Step(t, "p107", [threads[t] EXCEPT !.pc = "p109"])
        /\ heap' = [heap EXCEPT !.p.hash = <<threads[t].h>>]

\* Partial, line 109: return _hash
PartialReturn ==
    \E t \in Threads :
        /\ Step(t, "p109", [threads[t] EXCEPT !.pc = "done", !.rv = <<threads[t].h>>])
        /\ UNCHANGED heap

NextHash ==
    \/ EnterHash
    \/ CurryTest \/ CurryInit \/ CurryLoad \/ CurryStore \/ CurryReturn
    \/ PartialTest \/ PartialCompute \/ PartialStore \/ PartialReturn

SpecHash == InitHash /\ [][NextHash]_vars

----------------------------------------------------------------------------
(* Properties of Curry and Partial                                         *)

\* the value dict d holds for key k
Lookup(d, k) == (CHOOSE item \in Items(d) : item[1] = k)[2]

\* the items of K1 overridden by K2
Overridden(K1, K2) ==
    { <<k, IF k \in Keys(K2) THEN Lookup(K2, k) ELSE Lookup(K1, k)>> :
        k \in Keys(K1) \cup Keys(K2) }

\* the last operation called the wrapped function of `self` exactly once,
\* with the bound arguments then `args` and the bound keywords overridden by
\* `kwargs`, returned its result, and left `self` as it was
MergeLaw(self, args, kwargs) ==
    /\ Len(calls) = 1
    /\ calls[1].fn = self.callable
    /\ calls[1].args = self.args \o args
    /\ Items(calls[1].kwargs) = Overridden(self.kwargs, kwargs)
    /\ ret.status = "returned"
    /\ ret.value = [fn |-> self.callable, args |-> self.args \o args,
                    kwargs |-> Overridden(self.kwargs, kwargs)]
    /\ heap.p = self

Invoked == last.op = "invoke"

\* C6: invoking an instance built from (f, P1, K1) with (P2, K2) calls f
\* exactly once with P1 followed by P2 and K1 overridden by K2, returns f's
\* result and leaves the instance unchanged.
C6_InvokeMergeLaw ==
    Invoked => MergeLaw(last.before.p, last.args, last.kwargs)

\* The law holds of every invocation but that of a Curry with a keyword
\* named self, which Curry.__call__ cannot bind.
InvokeMergeLawExceptSelfKeyword ==
    (Invoked /\ ~(last.before.p.cls = "Curry" /\ "self" \in Keys(last.kwargs)))
        => MergeLaw(last.before.p, last.args, last.kwargs)

InvokeMergeLawWitness ==
    /\ Invoked
    /\ last.before.p.args # <<>> /\ last.args # <<>>
    /\ \E k \in Keys(last.kwargs) \cap Keys(last.before.p.kwargs) :
         Lookup(last.kwargs, k) # Lookup(last.before.p.kwargs, k)
    /\ MergeLaw(last.before.p, last.args, last.kwargs)

\* the instance is a Partial bound to fn with the given arguments
IsPartialOf(obj, fn, args, kwargs) ==
    /\ obj.cls = "Partial"
    /\ obj.callable = fn
    /\ obj.args = args
    /\ Items(obj.kwargs) = Items(kwargs)

\* C9: curry(f)(*a1, **k1) produces an instance equal to
\* partial(f, *a1, **k1), with the same callable, bound positional sequence
\* and bound keywords, and invoking either follows the merge law.
C9_CurryPartialEquivalence ==
    /\ last.op = "build" =>
         LET direct == partial(last.fn, last.args, last.kwargs)
         IN  /\ ret.status = "returned"
             /\ direct.status = "returned"
             /\ eq__(ret.value, direct.value)
             /\ IsPartialOf(ret.value, last.fn, last.args, last.kwargs)
    /\ last.op = "partial" =>
         /\ ret.status = "returned"
         /\ IsPartialOf(ret.value, last.fn, last.args, last.kwargs)
    /\ (Invoked /\ last.before.p.cls = "Partial") =>
         MergeLaw(last.before.p, last.args, last.kwargs)

\* The equivalence holds for every keyword but one named function, which
\* partial(function, *args, **kwargs) cannot bind.
CurryPartialEquivalenceExceptFunctionKeyword ==
    "function" \notin Keys(last.kwargs) => C9_CurryPartialEquivalence

----------------------------------------------------------------------------
(* Properties of equality and hashing                                      *)

\* equal callables, element-wise equal positional sequences and the same set
\* of (key, value) keyword pairs
Structural(a, b) ==
    /\ a.callable = b.callable
    /\ Len(a.args) = Len(b.args)
    /\ \A i \in 1..Len(a.args) : a.args[i] = b.args[i]
    /\ \A k \in Keywords, v \in Values :
         (<<k, v>> \in Items(a.kwargs)) <=> (<<k, v>> \in Items(b.kwargs))

RECURSIVE XorOver(_)
XorOver(items) ==
    IF items = {} THEN 0
    ELSE LET i == CHOOSE i \in items : TRUE
         IN  Xor(HashItem(i), XorOver(items \ {i}))

\* hash(callable) XOR hash(positional tuple) XOR the XOR of the hashes of
\* all (key, value) pairs
ExpectedHash(obj) ==
    Xor(HashCallable(obj.callable), Xor(HashArgs(obj.args), XorOver(Items(obj.kwargs))))

\* what hash(obj) returns in this state
HashNow(obj) == hash__(obj).hash[1]

HashAndEqualityAgree(same) ==
    LET hp == HashNow(heap.p)
        hq == HashNow(heap.q)
    IN  /\ last.op = "eq" => /\ ret.value.eq <=> same
                             /\ ret.value.eq => hp = hq
        /\ last.op = "hash" => ret.value.hash = ExpectedHash(heap.p)
        /\ hp = ExpectedHash(heap.p)
        /\ hq = ExpectedHash(heap.q)

\* C7 as stated: after any sequence of hash() and equals() calls, two
\* instances are equal iff their callables, positional sequences and sets of
\* keyword pairs are equal, equal instances have equal hashes, and the hash
\* is hash(callable) XOR hash(positional tuple) XOR the pairs' hashes.
C7_EqualityStructural ==
    HashAndEqualityAgree(Structural(heap.p, heap.q))

\* C7 amended: ... iff they are instances of the same class (both Curry or
\* both Partial) and their callables, positional sequences and sets of
\* keyword pairs are equal; the rest as stated.
C7_EqualitySameClass ==
    HashAndEqualityAgree(heap.p.cls = heap.q.cls /\ Structural(heap.p, heap.q))

\* instances whose keywords were inserted in different orders compare equal
\* after hash(p), and hash(q) returns what hash(p) cached
C7_Witness ==
    /\ last.op = "eq" /\ ret.value.eq
    /\ heap.p.kwargs # heap.q.kwargs
    /\ heap.p.hash = <<HashNow(heap.q)>>

\* C8: under every interleaving of the threads' reads and writes of the
\* cached hash, every call of hash() returns hash(callable) XOR
\* hash(positional tuple) XOR the pairs' hashes, and the cached field holds
\* nothing but 'absent' or that value.
C8_ConcurrentHashSafe ==
    /\ heap.p.hash \in {Absent, <<ExpectedHash(heap.p)>>}
    /\ \A t \in Threads :
         threads[t].pc = "done" => threads[t].rv = <<ExpectedHash(heap.p)>>

\* Partial.__hash__, which writes the field once with the finished value,
\* is safe in that sense.
PartialConcurrentHashSafe ==
    heap.p.cls = "Partial" => C8_ConcurrentHashSafe

PartialConcurrentHashWitness ==
    /\ heap.p.cls = "Partial" /\ heap.p.kwargs # <<>>
    /\ \A t \in Threads : threads[t].pc = "done"

----------------------------------------------------------------------------
(* atl_partial_signature                                                   *)

\* signature.extrakw: the name of the ** parameter, or None
extrakw(sig) ==
    IF \E i \in 1..Len(sig.parameters) : sig.parameters[i].kind = VAR_KEYWORD
    THEN LET i == CHOOSE i \in 1..Len(sig.parameters) :
                      sig.parameters[i].kind = VAR_KEYWORD
         IN  sig.parameters[i].name
    ELSE None

\* mutant: the default policy inverted (allow iff there is a catch-all)
ResolveAllow_DefaultInverted(sig, allow, force) ==
    LET forced == IF force THEN "True" ELSE allow
    IN  IF forced = None THEN extrakw(sig) # None ELSE forced = "True"

\* mutant: force_convert_posonly only consulted when the policy is unspecified
ResolveAllow_ExplicitWins(sig, allow, force) ==
    IF allow = None THEN (force \/ extrakw(sig) = None) ELSE allow = "True"

\* lines 167-174: the policy actually applied, a BOOLEAN
ResolveAllow(sig, allow, force) ==
    LET forced == IF force THEN "True" ELSE allow
    IN  IF forced = None THEN extrakw(sig) = None ELSE forced = "True"

\* lines 184-196: what one parameter contributes to new_parameters
RebindParameter(param, passed, allow, force) ==
    IF param.kind \in {VAR_POSITIONAL, VAR_KEYWORD} THEN
        <<param>>
    ELSE IF param.name \in DOMAIN passed THEN
        IF param.kind = POSITIONAL_ONLY /\ ~allow THEN
            <<>>
        ELSE
            <<replace(param, KEYWORD_ONLY, passed[param.name])>>
    ELSE IF param.kind = POSITIONAL_ONLY /\ force THEN
        <<replace(param, POSITIONAL_OR_KEYWORD, param.default)>>
    ELSE
        <<param>>

\* lines 181-196: the loop over parameters.items(), in order
RECURSIVE NewParameters(_, _, _, _)
NewParameters(ps, passed, allow, force) ==
    IF ps = <<>> THEN <<>>
    ELSE RebindParameter(Head(ps), passed, allow, force)
            \o NewParameters(Tail(ps), passed, allow, force)

\* line 198: the sort key (param.kind, bool(param.default is not param.empty)),
\* ordered as Python orders tuples
KeyLess(p, q) ==
    \/ p.kind < q.kind
    \/ p.kind = q.kind /\ p.default = empty /\ q.default # empty

\* list.sort is stable: insertion after the last element not greater
RECURSIVE InsertParam(_, _)
InsertParam(sorted, p) ==
    IF sorted = <<>> THEN <<p>>
    ELSE IF KeyLess(p, sorted[Len(sorted)])
         THEN InsertParam(SubSeq(sorted, 1, Len(sorted) - 1), p)
                 \o <<sorted[Len(sorted)]>>
         ELSE Append(sorted, p)

RECURSIVE SortFrom(_, _)
SortFrom(sorted, rest) ==
    IF rest = <<>> THEN sorted
    ELSE SortFrom(InsertParam(sorted, Head(rest)), Tail(rest))

\* mutant: the sort left out
SortParameters_Omitted(ps) == ps

Reverse(ps) == [i \in 1..Len(ps) |-> ps[Len(ps) + 1 - i]]

\* mutant: an unstable sort, which reverses parameters of equal key
SortParameters_Unstable(ps) == SortFrom(<<>>, Reverse(ps))

SortParameters(ps) == SortFrom(<<>>, ps)

\* mutant: the fast path taken for an empty signature only
atl_partial_signature_NoMapCheck(sig, passed, allow, force) ==
    LET allowed == ResolveAllow(sig, allow, force)
        parameters == sig.parameters
    IN  IF parameters = <<>> THEN sig
        ELSE Signature(SortParameters(
                 NewParameters(parameters, passed, allowed, force)))

\* mutant: passed names that match no parameter absorbed as keyword-only
\* parameters
atl_partial_signature_AbsorbUnknown(sig, passed, allow, force) ==
    LET allowed == ResolveAllow(sig, allow, force)
        parameters == sig.parameters
        known == { parameters[i].name : i \in 1..Len(parameters) }
        RECURSIVE Absorbed(_)
        Absorbed(ns) ==
            IF ns = {} THEN <<>>
            ELSE LET n == CHOOSE n \in ns : TRUE
                 IN  <<Parameter(n, KEYWORD_ONLY, passed[n])>> \o Absorbed(ns \ {n})
    IN  IF ~(parameters # <<>> /\ DOMAIN passed # {}) THEN sig
        ELSE Signature(SortParameters(
                 NewParameters(parameters, passed, allowed, force)
                    \o Absorbed(DOMAIN passed \ known)))

atl_partial_signature(sig, passed, allow, force) ==
    LET allowed == ResolveAllow(sig, allow, force)
        parameters == sig.parameters
    IN  IF ~(parameters # <<>> /\ DOMAIN passed # {}) THEN sig
        ELSE Signature(SortParameters(
                 NewParameters(parameters, passed, allowed, force)))

----------------------------------------------------------------------------
(* The rebinder as a state machine: a call, then a call on its result.     *)

InitSig ==
    /\ IdleCalls
    /\ IdleThreads
    /\ signature \in InputSignatures
    /\ passed_parameters = <<>>
    /\ allow_posonly_override = None
    /\ force_convert_posonly = FALSE
    /\ new_signature = None
    /\ again_signature = None
    /\ stage = "start"

Rebind ==
    /\ stage = "start"
    /\ \E passed \in PassedMaps, allow \in AllowValues, force \in BOOLEAN :
        /\ passed_parameters' = passed
        /\ allow_posonly_override' = allow
        /\ force_convert_posonly' = force
        /\ new_signature' = atl_partial_signature(signature, passed, allow, force)
    /\ stage' = "once"
    /\ UNCHANGED <<signature, again_signature, callvars, threads>>

RebindAgain ==
    /\ stage = "once"
    /\ again_signature' = atl_partial_signature(new_signature, passed_parameters,
                              allow_posonly_override, force_convert_posonly)
    /\ stage' = "twice"
    /\ UNCHANGED <<signature, passed_parameters, allow_posonly_override,
                   force_convert_posonly, new_signature, callvars, threads>>

NextSig == Rebind \/ RebindAgain

SpecSig == InitSig /\ [][NextSig]_vars

----------------------------------------------------------------------------
(* Properties of atl_partial_signature                                     *)

Called == stage # "start"

Names(ps) == { ps[i].name : i \in 1..Len(ps) }

\* the positions at which name occurs in ps
Occurrences(ps, name) == { j \in 1..Len(ps) : ps[j].name = name }

HasCatchallKeyword(sig) ==
    \E i \in 1..Len(sig.parameters) : sig.parameters[i].kind = VAR_KEYWORD

\* the call took the loop, not the fast path
Rebuilt == /\ Called
           /\ signature.parameters # <<>>
           /\ DOMAIN passed_parameters # {}

\* C1: with force_convert_posonly false, a non-empty signature and a
\* non-empty map, a passed parameter that is not a var parameter is absent
\* from the result iff it is positional-only and the resolved policy (the
\* explicit allow_posonly_override, else not has_catchall_keyword) is false;
\* otherwise it occurs exactly once, keyword-only, with the passed value as
\* its default.
C1_PassedParameterRebound ==
    (Rebuilt /\ ~force_convert_posonly) =>
        LET allow == IF allow_posonly_override = None
                     THEN ~HasCatchallKeyword(signature)
                     ELSE allow_posonly_override = "True"
            ps == signature.parameters
            out == new_signature.parameters
        IN  \A i \in 1..Len(ps) :
                (~IsVar(ps[i]) /\ ps[i].name \in DOMAIN passed_parameters) =>
                    LET occ == Occurrences(out, ps[i].name)
                    IN  IF ps[i].kind = POSITIONAL_ONLY /\ ~allow
                        THEN occ = {}
                        ELSE /\ Cardinality(occ) = 1
                             /\ \A j \in occ :
                                  /\ out[j].kind = KEYWORD_ONLY
                                  /\ out[j].default = passed_parameters[ps[i].name]

\* the documented example's shape: under the default policy and a **kwargs
\* catch-all, a passed positional-only parameter is dropped and a passed
\* positional-or-keyword one becomes keyword-only
C1_Witness ==
    /\ Rebuilt /\ ~force_convert_posonly /\ allow_posonly_override = None
    /\ HasCatchallKeyword(signature)
    /\ \E i, k \in 1..Len(signature.parameters) :
         LET p == signature.parameters[i]
             q == signature.parameters[k]
         IN  /\ p.kind = POSITIONAL_ONLY /\ p.name \in DOMAIN passed_parameters
             /\ Occurrences(new_signature.parameters, p.name) = {}
             /\ q.kind = POSITIONAL_OR_KEYWORD /\ q.name \in DOMAIN passed_parameters
             /\ \E j \in 1..Len(new_signature.parameters) :
                  new_signature.parameters[j] =
                      Parameter(q.name, KEYWORD_ONLY, passed_parameters[q.name])

\* C2: the returned parameter sequence is well-formed: kinds in
\* non-decreasing rank order, and no positional parameter without a default
\* after a positional parameter with one.
C2_ResultWellFormed ==
    Called => /\ KindOrdered(new_signature.parameters)
              /\ DefaultOrdered(new_signature.parameters)

\* a call whose sort had to move a parameter
C2_Witness ==
    /\ Rebuilt
    /\ \E i, j \in 1..Len(new_signature.parameters) :
         LET ps == signature.parameters
             out == new_signature.parameters
         IN  /\ i < j
             /\ \E m, n \in 1..Len(ps) :
                  m > n /\ ps[m].name = out[i].name /\ ps[n].name = out[j].name

\* C3: with force_convert_posonly true the result does not depend on
\* allow_posonly_override; a passed positional-only parameter is retained
\* keyword-only with the passed value as default, one not passed is retained
\* positional-or-keyword with its default unchanged, and no positional-only
\* parameter remains.
C3_ForceConvert ==
    (Rebuilt /\ force_convert_posonly) =>
        LET ps == signature.parameters
            out == new_signature.parameters
        IN  /\ \A allow \in AllowValues :
                 atl_partial_signature(signature, passed_parameters, allow, TRUE)
                     = new_signature
            /\ \A j \in 1..Len(out) : out[j].kind # POSITIONAL_ONLY
            /\ \A i \in 1..Len(ps) : ps[i].kind = POSITIONAL_ONLY =>
                 /\ Cardinality(Occurrences(out, ps[i].name)) = 1
                 /\ \A j \in Occurrences(out, ps[i].name) :
                      out[j] = IF ps[i].name \in DOMAIN passed_parameters
                               THEN Parameter(ps[i].name, KEYWORD_ONLY,
                                              passed_parameters[ps[i].name])
                               ELSE Parameter(ps[i].name, POSITIONAL_OR_KEYWORD,
                                              ps[i].default)

\* forced conversion against an explicit allow_posonly_override of false,
\* with a passed and a not passed positional-only parameter
C3_Witness ==
    /\ Rebuilt /\ force_convert_posonly /\ allow_posonly_override = "False"
    /\ \E i, k \in 1..Len(signature.parameters) :
         LET p == signature.parameters[i]
             q == signature.parameters[k]
         IN  /\ p.kind = POSITIONAL_ONLY /\ p.name \in DOMAIN passed_parameters
             /\ q.kind = POSITIONAL_ONLY /\ q.name \notin DOMAIN passed_parameters
             /\ q.default # empty

\* C4: with no parameters or an empty map the input signature is returned
\* unchanged, whatever the two flags.
C4_FastPathUnchanged ==
    (Called /\ (signature.parameters = <<>> \/ DOMAIN passed_parameters = {}))
        => new_signature = signature

\* the fast path taken with force_convert_posonly on a signature that has a
\* positional-only parameter and is not in sort order
C4_Witness ==
    /\ Called /\ DOMAIN passed_parameters = {} /\ force_convert_posonly
    /\ \E i \in 1..Len(signature.parameters) :
         signature.parameters[i].kind = POSITIONAL_ONLY
    /\ SortParameters(signature.parameters) # signature.parameters
    /\ new_signature = signature

\* passed_parameters without the names that match no parameter
Matched(passed, sig) ==
    [n \in DOMAIN passed \cap Names(sig.parameters) |-> passed[n]]

\* C5 as stated: the result is the one returned for the map with the
\* unmatched names removed, also when that leaves the map empty.
C5_UnmatchedNamesRemovable ==
    Called => new_signature =
                atl_partial_signature(signature,
                                      Matched(passed_parameters, signature),
                                      allow_posonly_override,
                                      force_convert_posonly)

\* out is ps in the order a stable sort by (kind, has default) gives
IsStableSort(out, ps) ==
    /\ Len(out) = Len(ps)
    /\ \A i, j \in 1..Len(out) : i < j => ~KeyLess(out[j], out[i])
    /\ \A i \in 1..Len(ps) : \E j \in 1..Len(out) : out[j] = ps[i]
    /\ \A i, j \in 1..Len(ps) :
         (i < j /\ ~KeyLess(ps[i], ps[j]) /\ ~KeyLess(ps[j], ps[i])) =>
            \E m, n \in 1..Len(out) : m < n /\ out[m] = ps[i] /\ out[n] = ps[j]

\* C5 amended: unmatched names are removable when a matched name remains
\* (or none was passed at all); when every passed name is unmatched the
\* result is not the unchanged input but the rebuilt one: the parameters,
\* positional-only ones made positional-or-keyword under
\* force_convert_posonly, in stable (kind, has default) order.
C5_UnmatchedNamesIgnored ==
    Called =>
        LET matched == Matched(passed_parameters, signature)
            ps == signature.parameters
            loosened == [i \in 1..Len(ps) |->
                            IF ps[i].kind = POSITIONAL_ONLY /\ force_convert_posonly
                            THEN Parameter(ps[i].name, POSITIONAL_OR_KEYWORD,
                                           ps[i].default)
                            ELSE ps[i]]
        IN  IF DOMAIN matched # {} \/ DOMAIN passed_parameters = {}
            THEN new_signature =
                    atl_partial_signature(signature, matched,
                        allow_posonly_override, force_convert_posonly)
            ELSE IsStableSort(new_signature.parameters, loosened)

\* a map with a matched and an unmatched name, and a map of unmatched names
\* only whose result differs from the input
C5_Witness ==
    /\ Rebuilt
    /\ DOMAIN passed_parameters \cap UnknownNames # {}
    /\ \/ DOMAIN Matched(passed_parameters, signature) # {}
       \/ new_signature # signature

\* C10: applying the rebinder to its own result, with the same map and
\* flags, returns that result.
C10_Idempotent ==
    stage = "twice" => again_signature = new_signature

\* a second call on a result the first call changed and reordered
C10_Witness ==
    /\ stage = "twice"
    /\ new_signature # signature
    /\ new_signature.parameters # <<>>
    /\ DOMAIN passed_parameters # {}
    /\ \E i, j \in 1..Len(new_signature.parameters) :
         /\ i < j
         /\ new_signature.parameters[i].kind = new_signature.parameters[j].kind
         /\ (new_signature.parameters[i].default = empty)
              = (new_signature.parameters[j].default = empty)
         /\ again_signature = new_signature

====
